---- MODULE Spec2Model ----
(***************************************************************************)
(* The change-detection pipeline of the monitor scripts:                   *)
(*   band_tour_monitor.py   (TourMonitor)                                  *)
(*   hurricanes_monitor.py  (HurricanesMonitor)                            *)
(*   comic_shop_scraper.py  (ComicShopScraper)                             *)
(*   comic_events_monitor.py (ComicEventsMonitor)                          *)
(* One behaviour is a sequence of runs of ONE script (mon) against its     *)
(* DATA_FILE (disk).  The external data (world) and the sources that are   *)
(* out of reach (down) are fixed over a behaviour.                         *)
(* Spec follows one process, SpecTwo two processes of the band monitor.    *)
(* SpecNC is is_in_north_carolina alone, SpecDocs update_repo_docs.py      *)
(* (RepoDocumenter) and SpecHa the command line of ha_control.py.          *)
(***************************************************************************)
EXTENDS Integers, Sequences, FiniteSets, TLC

VARIABLES
    mon,        \* which script runs: "band", "hurricanes", "shop", "events"
    world,      \* what the remote sources hold: a sequence of [src, item]
    clock,      \* datetime.now(): [year, month]
    disk,       \* DATA_FILE: [kind, items]
    pc,         \* position of the process
    known,      \* self.known_shows / known_games / known_events
    new_items,  \* self.new_shows / new_games / new_events
    src,        \* index of the source (band, shop) being checked
    todo,       \* the candidates of the current fetch not yet processed
    message,    \* what run() returned: TRUE a message, FALSE None
    startDisk,  \* history: DATA_FILE as it was when this run loaded it
    saves,      \* history: completed saves of this run
    down,       \* the sources whose request fails or answers something else
    handed,     \* history: identifiers of the items ever handed to the Notifier
    prev,       \* history: how the previous run ended and what it had found
    other,      \* a second process of the same script: its memory while the
                \* first one is scheduled
    location,   \* is_in_north_carolina called alone: [venue, city, region]
    in_nc,      \* ... and what it returned ("none" before the call)
    readme_content, \* README.md of update_repo_docs.py: a sequence of pieces of text
    script_info,    \* RepoDocumenter.script_info: the scripts found by the scan
    earlier,    \* history: what README.md held before each update
    argv,       \* ha_control.py: sys.argv[1:]
    calls,      \* ha_control.py: the service calls made, with what _api_call returned
    printed,    \* ha_control.py: what the process has printed
    exit        \* ha_control.py: "running", or the exit status

\* what a run of one monitor process leaves alone
filterVars == <<location, in_nc>>
docVars == <<readme_content, script_info, earlier>>
haVars == <<argv, calls, printed, exit>>
outside == <<other, filterVars, docVars, haVars>>

vars == <<mon, world, clock, disk, pc, known, new_items, src, todo, message,
          startDisk, saves, down, handed, prev, outside>>

(***************************************************************************)
(* Bounds.                                                                 *)
(***************************************************************************)
MaxCands == 2   \* candidates the sources hold, over all sources of a run

(***************************************************************************)
(* Text.  A Python str is a sequence of one-character strings.             *)
(***************************************************************************)
UpperChars == <<"A","B","C","D","E","F","G","H","I","J","K","L","M",
                "N","O","P","Q","R","S","T","U","V","W","X","Y","Z">>
LowerChars == <<"a","b","c","d","e","f","g","h","i","j","k","l","m",
                "n","o","p","q","r","s","t","u","v","w","x","y","z">>

LowerChar(c) ==
    IF \E i \in 1..Len(UpperChars) : UpperChars[i] = c
    THEN LowerChars[CHOOSE i \in 1..Len(UpperChars) : UpperChars[i] = c]
    ELSE c

\* str.lower()
lower(s) == [i \in 1..Len(s) |-> LowerChar(s[i])]

\* sub in s, for two str
StrIn(sub, s) ==
    \E i \in 0..(Len(s) - Len(sub)) : SubSeq(s, i + 1, i + Len(sub)) = sub

nc_indicators ==
    << <<",", " ", "n", "c">>,
       <<",", "n", "c">>,
       <<"n","o","r","t","h"," ","c","a","r","o","l","i","n","a">>,
       <<" ", "n", "c", " ">>,
       <<" ", "n", "c", ",">> >>

\* TourMonitor.is_in_north_carolina
is_in_north_carolina(venue, city, region) ==
    LET location_text == lower(venue \o <<" ">> \o city \o <<" ">> \o region)
    IN  \/ \E i \in 1..Len(nc_indicators) : StrIn(nc_indicators[i], location_text)
        \/ /\ region # <<>>
           /\ \/ StrIn(<<"n", "c">>, lower(region))
              \/ StrIn(nc_indicators[3], lower(region))

(***************************************************************************)
(* Identifiers.  A JSON string of decimal digits "k" is <<"s", k>>, a JSON *)
(* number k is <<"n", k>>, an absent (or null) id is <<"a", 0>>.  The      *)
(* synthesized strings are kept as the tuple of their parts.               *)
(***************************************************************************)
NoId == <<"a", 0>>
StrId(k) == <<"s", k>>
NumId(k) == <<"n", k>>

\* bool(x) of a JSON value used as id: None, "" and 0 are falsy
Truthy(id) == id[1] # "a" /\ ~(id[1] = "n" /\ id[2] = 0)

\* str(x) of a JSON value: the decimal digits of a number
str(id) == IF id[1] = "n" THEN StrId(id[2]) ELSE id

(***************************************************************************)
(* The JSON document and the Python value it loads to.                     *)
(*   kind "missing"  no file                                               *)
(*        "empty"    a file of length 0 (just opened with 'w')             *)
(*        "garbage"  a file json.load rejects                              *)
(*        "object"   a JSON object: items is the sequence of its           *)
(*                   <<key, value>> members as written (keys may repeat)   *)
(*        "array"    a JSON array (items: its elements)                    *)
(*        "scalar"   null or a number                                      *)
(* A dict is [kind |-> "object", items] with pairwise different keys, in   *)
(* insertion order; a list is [kind |-> "array", items].                   *)
(***************************************************************************)
Doc(kind, items) == [kind |-> kind, items |-> items]
EmptyDict == Doc("object", <<>>)

Keys(d) == {d.items[i][1] : i \in 1..Len(d.items)}

\* d[key], for a key of the dict
Get(d, key) == d.items[CHOOSE i \in 1..Len(d.items) : d.items[i][1] = key][2]

\* d[key] = value on a dict: an existing key keeps its place
Put(d, key, value) ==
    IF key \in Keys(d)
    THEN Doc(d.kind, [i \in 1..Len(d.items) |->
                        IF d.items[i][1] = key THEN <<key, value>> ELSE d.items[i]])
    ELSE Doc(d.kind, Append(d.items, <<key, value>>))

\* the key json.dump writes for a dict key: a number becomes its digits
JsonKey(key) == str(key)

\* a variant of Dump: only the members this run has added are written
Dump_delta(value) ==
    IF value.kind = "object"
    THEN LET added == {i \in 1..Len(value.items) :
                          \E k \in 1..Len(new_items) : new_items[k] = value.items[i][2]}
             Pick[n \in 0..Len(value.items)] ==
                 IF n = 0 THEN <<>>
                 ELSE IF n \in added
                      THEN Append(Pick[n - 1],
                                  <<JsonKey(value.items[n][1]), value.items[n][2]>>)
                      ELSE Pick[n - 1]
         IN  Doc("object", Pick[Len(value.items)])
    ELSE value

\* json.dump(value, f): every member in order, also when two keys are
\* written alike
Dump(value) ==
    IF value.kind = "object"
    THEN Doc("object", [i \in 1..Len(value.items) |->
                          <<JsonKey(value.items[i][1]), value.items[i][2]>>])
    ELSE value

RECURSIVE ParseMembers(_, _)
ParseMembers(items, acc) ==
    IF items = <<>> THEN acc
    ELSE ParseMembers(Tail(items), Put(acc, Head(items)[1], Head(items)[2]))

\* json.load(f): of a repeated key the last member wins
Parse(doc) ==
    IF doc.kind = "object" THEN ParseMembers(doc.items, EmptyDict) ELSE doc

\* a variant of load_known: only the missing file is provided for
load_known_unguarded(file) ==
    IF file.kind = "missing" THEN EmptyDict ELSE Parse(file)

\* load_known_shows / load_known_games / load_known_events
load_known(file) ==
    IF file.kind = "missing" THEN EmptyDict
    ELSE IF file.kind \in {"empty", "garbage"} THEN EmptyDict
    ELSE Parse(file)

\* key in value: TypeError on null or a number
InRaises(value) == value.kind = "scalar"

\* a variant of In: the membership test asks the file as loaded, not the
\* store in memory
In_onFile(key, value) == key \in Keys(load_known(startDisk))

In(key, value) ==
    IF value.kind = "object" THEN key \in Keys(value)
    ELSE \E i \in 1..Len(value.items) : value.items[i] = key

\* value[key] = x raises unless value is a dict (a list of length 0 takes
\* no index)
IsDict(value) == value.kind = "object"
SetRaises(value) == ~IsDict(value)


(***************************************************************************)
(* Band Tour Monitor.                                                      *)
(***************************************************************************)
BANDS == <<"Metallica", "Green Day">>

PNC_Arena == <<"P","N","C"," ","A","r","e","n","a">>
PNC_ARENA == <<"P","N","C"," ","A","R","E","N","A">>
Raleigh == <<"R","a","l","e","i","g","h">>

\* the venue objects the shows refer to; 0 stands for "venue": null
Venues ==
    << [name |-> PNC_Arena, city |-> Raleigh, region |-> <<"N", "C">>],
       [name |-> PNC_Arena, city |-> Raleigh, region |-> <<"S", "C">>],
       [name |-> PNC_ARENA, city |-> Raleigh, region |-> <<"N", "C">>] >>
NullVenue == 0

\* is_in_north_carolina of each venue
InNC ==
    [v \in 1..Len(Venues) |->
        is_in_north_carolina(Venues[v].name, Venues[v].city, Venues[v].region)]

\* the shows a Bandsintown answer is made of
ShowPool ==
    { [id |-> StrId(1), venue |-> 1, datetime |-> 1, url |-> 1],
      [id |-> StrId(1), venue |-> 2, datetime |-> 1, url |-> 1],
      [id |-> NumId(1), venue |-> 1, datetime |-> 1, url |-> 1],
      [id |-> NoId,     venue |-> 1, datetime |-> 2, url |-> 1],
      [id |-> NoId,     venue |-> 3, datetime |-> 2, url |-> 1],
      [id |-> StrId(2), venue |-> NullVenue, datetime |-> 1, url |-> 1] }

\* f"{band}-{show.get('datetime', '')}-{venue_name}"
FallbackId(band, datetime, venue_name) == <<"f", band, datetime, venue_name>>

Step(kn, nw, raised) == [known |-> kn, new |-> nw, raised |-> raised]

\* show_info of check_band
ShowInfo(band, show, show_id) ==
    [band |-> BANDS[band],
     venue |-> Venues[show.venue].name,
     city |-> Venues[show.venue].city,
     region |-> Venues[show.venue].region,
     date |-> show.datetime,
     url |-> show.url,
     show_id |-> show_id]

\* a variant of check_band: the location filter is left out
check_band_unfiltered(band, show, kn, nw) ==
    IF show.venue = NullVenue THEN Step(kn, nw, FALSE)
    ELSE
    LET v == Venues[show.venue]
        show_id == IF Truthy(show.id) THEN show.id
                   ELSE FallbackId(band, show.datetime, v.name)
        show_info == ShowInfo(band, show, show_id)
    IN  IF InRaises(kn) THEN Step(kn, nw, FALSE)
        ELSE IF In(show_id, kn) THEN Step(kn, nw, FALSE)
        ELSE IF SetRaises(kn) THEN Step(kn, Append(nw, show_info), FALSE)
        ELSE Step(Put(kn, show_id, show_info), Append(nw, show_info), FALSE)

\* TourMonitor.check_band, the body of the loop for one show: every
\* exception is caught and the show skipped
check_band(band, show, kn, nw) ==
    IF show.venue = NullVenue THEN Step(kn, nw, FALSE)    \* None.get: caught
    ELSE
    LET v == Venues[show.venue]
        show_id == IF Truthy(show.id) THEN show.id
                   ELSE FallbackId(band, show.datetime, v.name)
        show_info == ShowInfo(band, show, show_id)
    IN  IF ~is_in_north_carolina(v.name, v.city, v.region) THEN Step(kn, nw, FALSE)
        ELSE IF InRaises(kn) THEN Step(kn, nw, FALSE)
        ELSE IF In(show_id, kn) THEN Step(kn, nw, FALSE)
        ELSE IF SetRaises(kn) THEN Step(kn, Append(nw, show_info), FALSE)
        ELSE Step(Put(kn, show_id, show_info), Append(nw, show_info), FALSE)

(***************************************************************************)
(* Carolina Hurricanes schedule monitor.                                   *)
(***************************************************************************)
TEAM_NAME == "Carolina Hurricanes"

\* the games an NHL schedule answer is made of (dates and games flattened in
\* order); teams FALSE: the game has no 'teams' member
GamePool ==
    { [gamePk |-> NumId(1), date |-> 1, teams |-> TRUE,  home |-> TRUE],
      [gamePk |-> NumId(1), date |-> 2, teams |-> TRUE,  home |-> FALSE],
      [gamePk |-> StrId(2), date |-> 1, teams |-> TRUE,  home |-> FALSE],
      [gamePk |-> NumId(2), date |-> 1, teams |-> FALSE, home |-> FALSE] }

\* game_info of check_games
GameInfo(game, game_id) ==
    LET home_team == IF game.home THEN TEAM_NAME ELSE "Opponent"
        away_team == IF game.home THEN "Opponent" ELSE TEAM_NAME
        is_home == home_team = TEAM_NAME
    IN  [game_id |-> game_id,
         date |-> game.date,
         time |-> "TBD",
         opponent |-> IF is_home THEN away_team ELSE home_team,
         location |-> IF is_home THEN "Home" ELSE "Away",
         venue |-> "TBD",
         home_team |-> home_team,
         away_team |-> away_team]

\* a variant of check_games: a known game whose details have changed is
\* stored and reported again
check_games_upsert(game, kn, nw) ==
    LET game_id == str(game.gamePk)
    IN  IF InRaises(kn) THEN Step(kn, nw, TRUE)
        ELSE IF In(game_id, kn) /\ ~game.teams THEN Step(kn, nw, FALSE)
        ELSE IF In(game_id, kn) /\ IsDict(kn) /\ Get(kn, game_id) = GameInfo(game, game_id)
             THEN Step(kn, nw, FALSE)
        ELSE IF ~game.teams THEN Step(kn, nw, TRUE)
        ELSE IF SetRaises(kn) THEN Step(kn, Append(nw, GameInfo(game, game_id)), TRUE)
        ELSE Step(Put(kn, game_id, GameInfo(game, game_id)),
                  Append(nw, GameInfo(game, game_id)), FALSE)

\* HurricanesMonitor.check_games, the body of the loop for one game: no
\* exception is caught
check_games(game, kn, nw) ==
    LET game_id == str(game.gamePk)
    IN  IF InRaises(kn) THEN Step(kn, nw, TRUE)
        ELSE IF In(game_id, kn) THEN Step(kn, nw, FALSE)
        ELSE IF ~game.teams THEN Step(kn, nw, TRUE)         \* KeyError
        ELSE IF SetRaises(kn) THEN Step(kn, Append(nw, GameInfo(game, game_id)), TRUE)
        ELSE Step(Put(kn, game_id, GameInfo(game, game_id)),
                  Append(nw, GameInfo(game, game_id)), FALSE)


(***************************************************************************)
(* Local comic shop scraper.                                               *)
(***************************************************************************)
\* the first shops of COMIC_SHOPS
COMIC_SHOPS ==
    << [name |-> "Heroes Aren't Hard to Find", location |-> "Charlotte, NC",
        url |-> "https://heroesonline.com/events/"],
       [name |-> "Flying Colors Comics", location |-> "Concord, NC",
        url |-> "https://www.flyingcolorscomics.com/events"] >>

\* the lines a shop's page is made of.  Each starts with its date: the name
\* of a month and a day (date "month"), or d/m/y (date "slash"); text is the
\* rest of the line, signing and event say which of the two words is in it.
LinePool ==
    { [date |-> "month", month |-> "June", day |-> 5,  signing |-> TRUE,  event |-> FALSE, text |-> 1],
      [date |-> "month", month |-> "June", day |-> 12, signing |-> FALSE, event |-> TRUE,  text |-> 2],
      [date |-> "month", month |-> "July", day |-> 4,  signing |-> TRUE,  event |-> TRUE,  text |-> 3],
      [date |-> "slash", month |-> "6",    day |-> 5,  signing |-> TRUE,  event |-> FALSE, text |-> 4] }

\* date_patterns: the kind of date and the word each pattern asks for
date_patterns ==
    << [date |-> "month", word |-> "signing"],
       [date |-> "month", word |-> "event"],
       [date |-> "slash", word |-> "signing"],
       [date |-> "slash", word |-> "event"] >>

LineMatches(pattern, line) ==
    /\ line.date = pattern.date
    /\ IF pattern.word = "signing" THEN line.signing ELSE line.event

\* what re.findall gives for one matching line: the group (the month's
\* name) of a pattern that has one, the whole matched text of the others
MatchOf(pattern, line) ==
    IF pattern.date = "month" THEN <<"group", line.month, 0, 0>>
    ELSE <<"text", line.month, line.day, line.text>>

RECURSIVE findall(_, _)
findall(pattern, html) ==
    IF html = <<>> THEN <<>>
    ELSE (IF LineMatches(pattern, Head(html))
          THEN <<MatchOf(pattern, Head(html))>> ELSE <<>>)
         \o findall(pattern, Tail(html))

\* the matches in the order extract_events visits them
AllMatches(html) ==
    findall(date_patterns[1], html) \o findall(date_patterns[2], html)
    \o findall(date_patterns[3], html) \o findall(date_patterns[4], html)

\* event of extract_events
EventInfo(shop, match, event_id, now) ==
    [id |-> event_id,
     shop |-> COMIC_SHOPS[shop].name,
     location |-> COMIC_SHOPS[shop].location,
     title |-> match,
     url |-> COMIC_SHOPS[shop].url,
     found_date |-> now]

\* a variant of extract_events: the newest event is put first
extract_events_newest_first(shop, match, now, kn, nw) ==
    LET event_id == <<"e", shop, match>>
        event == EventInfo(shop, match, event_id, now)
    IN  IF InRaises(kn) THEN Step(kn, nw, TRUE)
        ELSE IF In(event_id, kn) THEN Step(kn, nw, FALSE)
        ELSE IF SetRaises(kn) THEN Step(kn, <<event>> \o nw, TRUE)
        ELSE Step(Put(kn, event_id, event), <<event>> \o nw, FALSE)

\* ComicShopScraper.extract_events, the body of the loop for one match; nw
\* is self.new_events followed by the events list of the shop under way,
\* which check_shop appends to it when the shop is through
extract_events(shop, match, now, kn, nw) ==
    LET event_id == <<"e", shop, match>>
        event == EventInfo(shop, match, event_id, now)
    IN  IF InRaises(kn) THEN Step(kn, nw, TRUE)
        ELSE IF In(event_id, kn) THEN Step(kn, nw, FALSE)
        ELSE IF SetRaises(kn) THEN Step(kn, Append(nw, event), TRUE)
        ELSE Step(Put(kn, event_id, event), Append(nw, event), FALSE)

(***************************************************************************)
(* Comic book events monitor.                                              *)
(***************************************************************************)
MonthNames == <<"January", "February", "March", "April", "May", "June", "July",
                "August", "September", "October", "November", "December">>

major_cons ==
    << [name |-> "Heroes Convention", location |-> "Charlotte, NC",
        venue |-> "Charlotte Convention Center", typical_month |-> "June",
        url |-> "https://heroesonline.com/heroescon/"],
       [name |-> "Animazement", location |-> "Raleigh, NC",
        venue |-> "Raleigh Convention Center", typical_month |-> "May",
        url |-> "https://www.animazement.org/"],
       [name |-> "Supercon", location |-> "Raleigh, NC",
        venue |-> "Raleigh Convention Center", typical_month |-> "July",
        url |-> "https://www.raleighsupercon.com/"],
       [name |-> "Oak City Comicon", location |-> "Raleigh, NC",
        venue |-> "NC State Fairgrounds", typical_month |-> "October",
        url |-> ""],
       [name |-> "Charlotte Comicon", location |-> "Charlotte, NC",
        venue |-> "Hilton Charlotte University Place", typical_month |-> "Various",
        url |-> "http://www.charlottecomicon.com/"] >>

\* event of check_manual_events
ConInfo(con, con_id) ==
    [id |-> con_id,
     name |-> con.name,
     location |-> con.location,
     venue |-> con.venue,
     url |-> con.url,
     date |-> "TBD",
     source |-> "Convention Tracker"]

\* a variant of check_manual_events: a convention not yet known is added
\* whatever the month
check_manual_events_any_month(con, now, kn, nw) ==
    LET con_id == <<"c", con.name, now.year>>
        event == ConInfo(con, con_id)
    IN  IF InRaises(kn) THEN Step(kn, nw, TRUE)
        ELSE IF In(con_id, kn) THEN Step(kn, nw, FALSE)
        ELSE IF SetRaises(kn) THEN Step(kn, Append(nw, event), TRUE)
        ELSE Step(Put(kn, con_id, event), Append(nw, event), FALSE)

\* ComicEventsMonitor.check_manual_events, the body of the loop for one
\* convention
check_manual_events(con, now, kn, nw) ==
    LET con_id == <<"c", con.name, now.year>>
        event == ConInfo(con, con_id)
        current_month == MonthNames[now.month]
    IN  IF InRaises(kn) THEN Step(kn, nw, TRUE)
        ELSE IF In(con_id, kn) THEN Step(kn, nw, FALSE)
        ELSE IF ~(con.typical_month = current_month \/ con.typical_month = "Various")
             THEN Step(kn, nw, FALSE)
        ELSE IF SetRaises(kn) THEN Step(kn, Append(nw, event), TRUE)
        ELSE Step(Put(kn, con_id, event), Append(nw, event), FALSE)


(***************************************************************************)
(* The external data and the files a run may find.                         *)
(***************************************************************************)
Monitors == {"band", "hurricanes", "shop", "events"}

\* the sources a run goes through: BANDS, COMIC_SHOPS, else a single one
NSources(m) ==
    CASE m = "band" -> Len(BANDS)
      [] m = "shop" -> Len(COMIC_SHOPS)
      [] OTHER -> 1

Pool(m) ==
    CASE m = "band" -> ShowPool
      [] m = "hurricanes" -> GamePool
      [] m = "shop" -> LinePool
      [] OTHER -> {}

Cands(m) == {[src |-> s, item |-> i] : s \in 1..NSources(m), i \in Pool(m)}

\* what the sources may hold: up to MaxCands items, those of a source
\* together and in the order the source gives them
Worlds(m) ==
    UNION { {w \in [1..n -> Cands(m)] : \A i \in 1..(n - 1) : w[i].src <= w[i + 1].src}
            : n \in 0..MaxCands }

RECURSIVE ItemsOf(_, _)
ItemsOf(w, s) ==
    IF w = <<>> THEN <<>>
    ELSE (IF Head(w).src = s THEN <<Head(w).item>> ELSE <<>>) \o ItemsOf(Tail(w), s)

\* the moments a run may take place at, in order
Clocks ==
    << [year |-> 2025, month |-> 5],
       [year |-> 2025, month |-> 6],
       [year |-> 2026, month |-> 6] >>

Later(a, b) == a.year * 12 + a.month < b.year * 12 + b.month

\* a record an earlier run has saved, with attributes no source holds now
OldKey(m) ==
    CASE m = "band" -> StrId(1)
      [] m = "hurricanes" -> StrId(1)
      [] m = "shop" -> <<"e", 1, <<"group", "June", 0, 0>> >>
      [] OTHER -> <<"c", "Heroes Convention", 2025>>

OldRecord(m) ==
    CASE m = "band" ->
            [ShowInfo(1, [id |-> StrId(1), venue |-> 1, datetime |-> 0, url |-> 0],
                      StrId(1)) EXCEPT !.date = 0]
      [] m = "hurricanes" ->
            GameInfo([gamePk |-> StrId(1), date |-> 0, teams |-> TRUE, home |-> TRUE],
                     StrId(1))
      [] m = "shop" ->
            EventInfo(1, <<"group", "June", 0, 0>>, OldKey(m), [year |-> 2024, month |-> 6])
      [] OTHER ->
            [ConInfo(major_cons[1], OldKey(m)) EXCEPT !.date = "June 13"]

NoFile == Doc("missing", <<>>)

\* DATA_FILE before the first run
Files(m) ==
    { NoFile,
      Doc("garbage", <<>>),
      Doc("object", << <<OldKey(m), OldRecord(m)>> >>),
      Doc("array", <<>>),
      Doc("scalar", <<>>) }

(***************************************************************************)
(* The state machine.                                                      *)
(***************************************************************************)
NoRun == [how |-> "none", clock |-> Clocks[1], new |-> <<>>, before |-> NoFile]

\* the memory of a process that is not running
NoProcess == [pc |-> "idle", known |-> EmptyDict, new_items |-> <<>>, src |-> 1,
              todo |-> <<>>, message |-> FALSE, startDisk |-> NoFile, saves |-> 0]

\* the location filter is not called on its own
NoPlace == [venue |-> <<>>, city |-> <<>>, region |-> <<>>]
FilterApart == location = NoPlace /\ in_nc = "none"

\* update_repo_docs.py is not run
DocsApart == readme_content = <<>> /\ script_info = <<>> /\ earlier = <<>>

\* ha_control.py is not run
HaApart == argv = <<>> /\ calls = <<>> /\ printed = <<>> /\ exit = "running"

Init ==
    /\ other = NoProcess
    /\ FilterApart
    /\ DocsApart
    /\ HaApart
    /\ mon \in Monitors
    /\ world \in Worlds(mon)
    /\ down \in {d \in SUBSET (1..NSources(mon)) :
                    /\ mon = "events" => d = {}
                    /\ \A i \in 1..Len(world) : world[i].src \notin d}
    /\ clock = Clocks[1]
    /\ disk \in Files(mon)
    /\ pc = "idle"
    /\ known = EmptyDict
    /\ new_items = <<>>
    /\ src = 1
    /\ todo = <<>>
    /\ message = FALSE
    /\ startDisk = NoFile
    /\ saves = 0
    /\ handed = {}
    /\ prev = NoRun

\* the process is gone: its memory with it.  Of a run that ended before
\* its save began ("aborted": killed, or left by an exception), and of one
\* whose message the Notifier could not send ("unsent"), prev keeps what it
\* had found and the file it had loaded; "broken" is a run that ended after
\* its save began without returning.
EndRun(how, found) ==
    /\ pc' = "idle"
    /\ prev' = [how |-> how, clock |-> clock,
                new |-> IF how \in {"aborted", "unsent"} THEN found ELSE <<>>,
                before |-> IF how \in {"aborted", "unsent"} THEN startDisk ELSE NoFile]
    /\ known' = EmptyDict
    /\ new_items' = <<>>
    /\ src' = 1
    /\ todo' = <<>>
    /\ message' = FALSE
    /\ startDisk' = NoFile
    /\ saves' = 0

\* time passes between two runs (only check_manual_events decides by what
\* datetime.now() gives)
Tick ==
    /\ pc = "idle"
    /\ mon = "events"
    /\ \E i \in 1..Len(Clocks) : Later(clock, Clocks[i]) /\ clock' = Clocks[i]
    /\ UNCHANGED <<outside, mon, world, disk, pc, known, new_items, src, todo, message,
                   startDisk, saves, down, handed, prev>>

\* a variant of Monitor_init: a process starts only while no other process
\* of the script is between its load and the end of its run
Monitor_init_exclusive ==
    /\ pc = "idle"
    /\ other.pc = "idle"
    /\ known' = load_known(disk)
    /\ new_items' = <<>>
    /\ startDisk' = disk
    /\ pc' = "fetch"
    /\ UNCHANGED <<outside, mon, world, clock, disk, src, todo, message, saves, down, handed, prev>>

\* TourMonitor() / HurricanesMonitor() / ComicShopScraper() / ComicEventsMonitor()
Monitor_init ==
    /\ pc = "idle"
    /\ known' = load_known(disk)
    /\ new_items' = <<>>
    /\ startDisk' = disk
    /\ pc' = "fetch"
    /\ UNCHANGED <<outside, mon, world, clock, disk, src, todo, message, saves, down, handed, prev>>

\* fetch_shows / fetch_schedule / fetch_page answer; check_manual_events
\* starts on its own list
fetch ==
    /\ pc = "fetch"
    /\ src \notin down
    /\ todo' = CASE mon = "shop" -> AllMatches(ItemsOf(world, src))
                 [] mon = "events" -> major_cons
                 [] OTHER -> ItemsOf(world, src)
    /\ pc' = "loop"
    /\ UNCHANGED <<outside, mon, world, clock, disk, known, new_items, src, message,
                   startDisk, saves, down, handed, prev>>

\* the request fails: fetch_shows gives [], fetch_schedule and fetch_page None
fetch_error ==
    /\ pc = "fetch"
    /\ src \in down
    /\ todo' = <<>>
    /\ pc' = "loop"
    /\ UNCHANGED <<outside, mon, world, clock, disk, known, new_items, src, message,
                   startDisk, saves, down, handed, prev>>

\* what check_games does with an answer that is JSON but no schedule (a
\* number, a list, "dates" that is no list of dates): nothing guards the
\* look-ups, the exception leaves run.  fetch_shows turns an answer that
\* is no list into [], a page without dates gives no match
MalformedRaises(m) == m = "hurricanes"

\* the answer of a source is not of the expected shape
fetch_malformed ==
    /\ pc = "fetch"
    /\ src \in down
    /\ IF MalformedRaises(mon)
       THEN EndRun("aborted", new_items)
       ELSE /\ todo' = <<>>
            /\ pc' = "loop"
            /\ UNCHANGED <<known, new_items, src, message, startDisk, saves, prev>>
    /\ UNCHANGED <<outside, mon, world, clock, disk, down, handed>>

\* a variant of Turn: the store is written to DATA_FILE as soon as an item
\* is new
Turn_saving(r) ==
    IF r.raised
    THEN EndRun("aborted", r.new) /\ UNCHANGED <<outside, mon, world, clock, disk, down, handed>>
    ELSE /\ known' = r.known
         /\ new_items' = r.new
         /\ todo' = Tail(todo)
         /\ disk' = IF r.new # new_items THEN Dump(r.known) ELSE disk
         /\ UNCHANGED <<outside, mon, world, clock, pc, src, message,
                        startDisk, saves, down, handed, prev>>

\* one turn of the candidates' loop
Turn(r) ==
    IF r.raised
    THEN EndRun("aborted", r.new) /\ UNCHANGED <<outside, mon, world, clock, disk, down, handed>>
    ELSE /\ known' = r.known
         /\ new_items' = r.new
         /\ todo' = Tail(todo)
         /\ UNCHANGED <<outside, mon, world, clock, disk, pc, src, message,
                        startDisk, saves, down, handed, prev>>

band_turn ==
    /\ pc = "loop" /\ mon = "band" /\ todo # <<>>
    /\ Turn(check_band(src, Head(todo), known, new_items))

games_turn ==
    /\ pc = "loop" /\ mon = "hurricanes" /\ todo # <<>>
    /\ Turn(check_games(Head(todo), known, new_items))

shop_turn ==
    /\ pc = "loop" /\ mon = "shop" /\ todo # <<>>
    /\ Turn(extract_events(src, Head(todo), clock, known, new_items))

events_turn ==
    /\ pc = "loop" /\ mon = "events" /\ todo # <<>>
    /\ Turn(check_manual_events(Head(todo), clock, known, new_items))

\* a variant of SavesAlways: every script saves only what is new
SavesAlways_never(m) == FALSE

\* a variant of SavesAlways: every script saves at the end of a run
SavesAlways_every(m) == TRUE

\* the run() that saves whether or not it found anything
SavesAlways(m) == m # "hurricanes"

\* run(): the next band or shop; after the last one HurricanesMonitor.run
\* saves only if it has new games, the others save

run_next ==
    /\ pc = "loop" /\ todo = <<>>
    /\ IF src < NSources(mon)
       THEN /\ src' = src + 1
            /\ pc' = "fetch"
            /\ UNCHANGED message
       ELSE IF SavesAlways(mon) \/ new_items # <<>>
       THEN /\ pc' = "save"
            /\ UNCHANGED <<src, message>>
       ELSE /\ pc' = "main"
            /\ message' = FALSE
            /\ UNCHANGED src
    /\ UNCHANGED <<outside, mon, world, clock, disk, known, new_items, todo,
                   startDisk, saves, down, handed, prev>>

\* save_known_*: open(DATA_FILE, 'w') leaves a file of length 0
AfterOpen(file) == Doc("empty", <<>>)

save_open ==
    /\ pc = "save"
    /\ disk' = AfterOpen(disk)
    /\ pc' = "dump"
    /\ UNCHANGED <<outside, mon, world, clock, known, new_items, src, todo, message,
                   startDisk, saves, down, handed, prev>>

\* a variant of save_dump: run returns a message whether or not it found
\* anything
save_dump_always ==
    /\ pc = "dump"
    /\ disk' = Dump(known)
    /\ saves' = saves + 1
    /\ message' = TRUE
    /\ pc' = "main"
    /\ UNCHANGED <<outside, mon, world, clock, known, new_items, src, todo,
                   startDisk, down, handed, prev>>

\* save_known_*: json.dump and close; run returns the message, or None
save_dump ==
    /\ pc = "dump"
    /\ disk' = Dump(known)
    /\ saves' = saves + 1
    /\ message' = (new_items # <<>>)
    /\ pc' = "main"
    /\ UNCHANGED <<outside, mon, world, clock, known, new_items, src, todo,
                   startDisk, down, handed, prev>>

\* save_known_*: the write fails (OSError), part of the text is in the file;
\* nothing catches the error
save_error ==
    /\ pc = "dump"
    /\ disk' = Doc("garbage", <<>>)
    /\ EndRun("broken", new_items)
    /\ UNCHANGED <<outside, mon, world, clock, down, handed>>

IdsOf(items) == {IF mon = "band" THEN items[i].show_id
                 ELSE IF mon = "hurricanes" THEN items[i].game_id
                 ELSE items[i].id : i \in 1..Len(items)}

\* main: if message: send_telegram(message); the run is over
notify ==
    /\ pc = "main"
    /\ message
    /\ handed' = handed \cup IdsOf(new_items)
    /\ EndRun("done", new_items)
    /\ UNCHANGED <<outside, mon, world, clock, disk, down>>

\* send_telegram_message / send_telegram cannot send (no credentials, the
\* request fails, the API answers an error): it prints and returns
notify_error ==
    /\ pc = "main"
    /\ message
    /\ handed' = handed \cup IdsOf(new_items)
    /\ EndRun("unsent", new_items)
    /\ UNCHANGED <<outside, mon, world, clock, disk, down>>

finish ==
    /\ pc = "main"
    /\ ~message
    /\ EndRun("done", new_items)
    /\ UNCHANGED <<outside, mon, world, clock, disk, down, handed>>

\* the process is killed
Kill ==
    /\ pc # "idle"
    /\ EndRun(IF pc \in {"fetch", "loop", "save"} THEN "aborted" ELSE "broken", new_items)
    /\ UNCHANGED <<outside, mon, world, clock, disk, down, handed>>

Next ==
    \/ Tick
    \/ Monitor_init
    \/ fetch
    \/ fetch_error
    \/ fetch_malformed
    \/ band_turn
    \/ games_turn
    \/ shop_turn
    \/ events_turn
    \/ run_next
    \/ save_open
    \/ save_dump
    \/ save_error
    \/ notify
    \/ notify_error
    \/ finish
    \/ Kill

Spec == Init /\ [][Next]_vars

(***************************************************************************)
(* Two processes of one script against the same DATA_FILE (cron starting   *)
(* a run while the one before is still waiting for a source).  The          *)
(* variables pc .. saves are the memory of the process that is scheduled,  *)
(* other that of the process that waits.                                   *)
(***************************************************************************)
\* the scheduler takes the processor from one process and gives it to the
\* other; nothing in the scripts (no lock file, no flock) prevents it at
\* any point
Switch ==
    /\ other' = [pc |-> pc, known |-> known, new_items |-> new_items, src |-> src,
                 todo |-> todo, message |-> message, startDisk |-> startDisk,
                 saves |-> saves]
    /\ pc' = other.pc
    /\ known' = other.known
    /\ new_items' = other.new_items
    /\ src' = other.src
    /\ todo' = other.todo
    /\ message' = other.message
    /\ startDisk' = other.startDisk
    /\ saves' = other.saves
    /\ UNCHANGED <<mon, world, clock, disk, down, handed, prev,
                   filterVars, docVars, haVars>>

\* fetch_shows: this request of this process fails (timeout=30), the
\* except branch returns []
fetch_timeout ==
    /\ pc = "fetch"
    /\ todo' = <<>>
    /\ pc' = "loop"
    /\ UNCHANGED <<outside, mon, world, clock, disk, known, new_items, src, message,
                   startDisk, saves, down, handed, prev>>

\* the band monitor, started twice on a DATA_FILE that loads as a mapping;
\* each process is followed from its load to its return to main
InitTwo ==
    /\ mon = "band"
    /\ world \in Worlds(mon)
    /\ down = {}
    /\ clock = Clocks[1]
    /\ disk \in {file \in Files(mon) : IsDict(load_known(file))}
    /\ pc = "idle"
    /\ known = EmptyDict
    /\ new_items = <<>>
    /\ src = 1
    /\ todo = <<>>
    /\ message = FALSE
    /\ startDisk = NoFile
    /\ saves = 0
    /\ handed = {}
    /\ prev = NoRun
    /\ other = NoProcess
    /\ FilterApart
    /\ DocsApart
    /\ HaApart

NextTwo ==
    \/ Switch
    \/ Monitor_init
    \/ fetch
    \/ fetch_timeout
    \/ band_turn
    \/ run_next
    \/ save_open
    \/ save_dump

SpecTwo == InitTwo /\ [][NextTwo]_vars

(***************************************************************************)
(* is_in_north_carolina on its own: one call for one location.             *)
(***************************************************************************)
\* no monitor runs
MonitorApart ==
    /\ mon = "band"
    /\ world = <<>>
    /\ down = {}
    /\ clock = Clocks[1]
    /\ disk = NoFile
    /\ pc = "idle"
    /\ known = EmptyDict
    /\ new_items = <<>>
    /\ src = 1
    /\ todo = <<>>
    /\ message = FALSE
    /\ startDisk = NoFile
    /\ saves = 0
    /\ handed = {}
    /\ prev = NoRun
    /\ other = NoProcess

monitorVars == <<mon, world, clock, disk, pc, known, new_items, src, todo, message,
                 startDisk, saves, down, handed, prev, other>>

\* venue names, cities and regions as Bandsintown gives them
VenueNames ==
    { PNC_Arena, PNC_ARENA,
      <<"T","h","e"," ","O","r","a","n","g","e"," ","P","e","e","l">>,
      <<"C","a","t","'","s"," ","C","r","a","d","l","e",","," ","N","C">>,
      <<"S","a","l","a"," ","A","p","o","l","o">> }
Cities ==
    { Raleigh,
      <<"C","h","a","r","l","o","t","t","e">>,
      <<"C","o","l","u","m","b","i","a">>,
      <<"V","a","l","e","n","c","i","a">>,
      <<"A","s","h","e","v","i","l","l","e",","," ","N","C">> }
Regions ==
    { <<"N","C">>, <<"S","C">>, <<"n","c">>, <<>>,
      <<"N","o","r","t","h"," ","C","a","r","o","l","i","n","a">>,
      <<"V","a","l","e","n","c","i","a">>,
      <<"O","n","t","a","r","i","o">> }

InitNC ==
    /\ MonitorApart
    /\ DocsApart
    /\ HaApart
    /\ location \in [venue : VenueNames, city : Cities, region : Regions]
    /\ in_nc = "none"

\* venue = show.get('venue', {}) ... self.is_in_north_carolina(venue_name, city, region)
filter_call ==
    /\ in_nc = "none"
    /\ in_nc' = IF is_in_north_carolina(location.venue, location.city, location.region)
                THEN "True" ELSE "False"
    /\ UNCHANGED <<monitorVars, docVars, haVars, location>>

NextNC == filter_call

SpecNC == InitNC /\ [][NextNC]_vars

(***************************************************************************)
(* update_repo_docs.py: RepoDocumenter.  A text is a sequence of pieces;   *)
(* the headings the code looks for, the newline and the '# ' headings are  *)
(* pieces of their own.                                                    *)
(***************************************************************************)
MaxReadme == 3      \* pieces of the README.md found
MaxUpdates == 2     \* runs of the documenter

NL == "\n"
TocHeading == "## Table of Contents"
QuickStart == "## Quick Start"
Title == "# Title"
Usage == "## Usage"
Text == "text"
Pieces == {NL, TocHeading, QuickStart, Title, Usage, Text}

NoReadme == <<"(no file)">>

\* sub in content, for one of the pieces
Has(content, piece) == \E i \in 1..Len(content) : content[i] = piece

\* content.split(piece): the parts
Part0(content, piece) ==
    IF Has(content, piece)
    THEN SubSeq(content, 1, (CHOOSE i \in 1..Len(content) :
                                /\ content[i] = piece
                                /\ \A j \in 1..(i - 1) : content[j] # piece) - 1)
    ELSE content
Rest(content, piece) ==
    SubSeq(content, Len(Part0(content, piece)) + 2, Len(content))
Part1(content, piece) == Part0(Rest(content, piece), piece)

\* generate_table_of_contents: the scripts are all of the root directory
generate_table_of_contents ==
    IF script_info = <<>> THEN <<>>
    ELSE <<NL, "### Root Directory", NL>>
         \o [i \in 1..(2 * Len(script_info)) |->
                IF i % 2 = 1 THEN NL ELSE script_info[i \div 2]]
         \o <<NL>>

\* the f-string of update_auto_generated_section
replacement ==
    <<TocHeading, NL, NL>> \o generate_table_of_contents \o <<NL, NL, QuickStart, NL>>

\* content.split('\n'): the index of the first piece of each line
LineStarts(content) ==
    {1} \cup {i + 1 : i \in {j \in 1..Len(content) : content[j] = NL}}

\* the first line after line 0 that starts with '# ' (0: none)
first_heading(content) ==
    LET hits == {i \in LineStarts(content) : i > 1 /\ i <= Len(content) /\ content[i] = Title}
    IN  IF hits = {} THEN 0
        ELSE CHOOSE i \in hits : \A j \in hits : i <= j

\* RepoDocumenter.update_auto_generated_section
update_auto_generated_section(content) ==
    IF Has(content, TocHeading)
    THEN LET before == Part0(content, TocHeading)
             part1 == Part1(content, TocHeading)
             after == IF Has(part1, QuickStart) THEN Part1(part1, QuickStart) ELSE <<>>
         IN  before \o replacement \o after
    ELSE LET h == first_heading(content)
         IN  IF h = 0
             THEN <<NL>> \o replacement \o <<NL>> \o content
             ELSE SubSeq(content, 1, h - 2) \o <<NL>> \o replacement \o <<NL>>
                  \o SubSeq(content, h, Len(content))

\* RepoDocumenter.create_new_readme
create_new_readme ==
    <<"# Script Repository", NL, NL, Text, NL, NL, "Last updated", NL, NL,
      TocHeading, NL, NL>> \o generate_table_of_contents
    \o <<NL, NL, QuickStart, NL, NL, Text, NL, NL, "---", NL, NL, Text, NL>>

\* the README.md files a run may find
Readmes ==
    {NoReadme} \cup UNION {[1..n -> Pieces] : n \in 0..MaxReadme}

InitDocs ==
    /\ MonitorApart
    /\ FilterApart
    /\ HaApart
    /\ readme_content \in Readmes
    /\ script_info \in {<<>>, <<"- **a.py** - x">>}
    /\ earlier = <<>>

\* RepoDocumenter.update_readme, when README.md exists
update_readme ==
    /\ Len(earlier) < MaxUpdates
    /\ readme_content # NoReadme
    /\ readme_content' = update_auto_generated_section(readme_content)
    /\ earlier' = Append(earlier, readme_content)
    /\ UNCHANGED <<monitorVars, filterVars, haVars, script_info>>

\* RepoDocumenter.update_readme, when there is no README.md
update_readme_new ==
    /\ Len(earlier) < MaxUpdates
    /\ readme_content = NoReadme
    /\ readme_content' = create_new_readme
    /\ earlier' = Append(earlier, readme_content)
    /\ UNCHANGED <<monitorVars, filterVars, haVars, script_info>>

NextDocs ==
    \/ update_readme
    \/ update_readme_new

SpecDocs == InitDocs /\ [][NextDocs]_vars

(***************************************************************************)
(* ha_control.py: the command line of the Home Assistant controller.  An   *)
(* entity id f"{domain}.{name}" is [domain, name].                         *)
(***************************************************************************)
Entities ==
    { [domain |-> "light", name |-> "living_room"],
      [domain |-> "switch", name |-> "fan"],
      [domain |-> "lock", name |-> "front_door"],
      [domain |-> "climate", name |-> "thermostat"],
      [domain |-> "Light", name |-> "porch"] }

Commands == {"dashboard", "lights", "on", "off", "toggle", "temp", "lock", "unlock",
             "ON", "Toggle", "status"}

\* sys.argv[1].lower()
LowerCommand(word) ==
    CASE word = "ON" -> "on"
      [] word = "Toggle" -> "toggle"
      [] OTHER -> word

\* entity_id.startswith("light.")
startswith_light(entity_id) == entity_id.domain = "light"

\* float(sys.argv[3]) raises ValueError
FloatRaises(word) == word = "warm"

\* the command lines: a command, then an entity id or nothing, then a
\* temperature or nothing
CommandLines ==
    {<<>>}
    \cup {<<c>> : c \in Commands}
    \cup {<<c, e>> : c \in Commands, e \in Entities}
    \cup {<<c, e, t>> : c \in Commands, e \in Entities, t \in {"72", "warm"}}

InitHa ==
    /\ MonitorApart
    /\ FilterApart
    /\ DocsApart
    /\ argv \in CommandLines
    /\ calls = <<>>
    /\ printed = <<>>
    /\ exit = "running"

\* HomeAssistantController._api_call through call_service: the request is
\* made; it returns the decoded answer, or prints the error and returns None
call_service(domain, service, entity_id, ok) ==
    /\ calls' = Append(calls, [domain |-> domain, service |-> service,
                               entity_id |-> entity_id,
                               returned |-> IF ok THEN "json" ELSE "None"])

\* what main prints after a call: _api_call's complaint if it failed, then
\* the confirmation
Said(ok, confirmation) ==
    printed' = printed \o (IF ok THEN <<>> ELSE <<"Error">>) \o <<confirmation>>

\* the except of main: print(f"Error: {e}"); sys.exit(1)
Fails ==
    /\ printed' = Append(printed, "Error")
    /\ exit' = "1"
    /\ UNCHANGED calls

\* main: len(sys.argv) < 2
main_usage ==
    /\ exit = "running" /\ argv = <<>>
    /\ printed' = Append(printed, "Usage")
    /\ exit' = "1"
    /\ UNCHANGED <<monitorVars, filterVars, docVars, argv, calls>>

\* main: command == "on"
main_on ==
    /\ exit = "running" /\ argv # <<>> /\ LowerCommand(argv[1]) = "on"
    /\ IF Len(argv) < 2 THEN Fails                       \* IndexError
       ELSE \E ok \in BOOLEAN :
               /\ IF startswith_light(argv[2])
                  THEN call_service("light", "turn_on", argv[2], ok)
                  ELSE call_service("switch", "turn_on", argv[2], ok)
               /\ Said(ok, "Turned on")
               /\ exit' = "0"
    /\ UNCHANGED <<monitorVars, filterVars, docVars, argv>>

\* main: command == "off"
main_off ==
    /\ exit = "running" /\ argv # <<>> /\ LowerCommand(argv[1]) = "off"
    /\ IF Len(argv) < 2 THEN Fails
       ELSE \E ok \in BOOLEAN :
               /\ IF startswith_light(argv[2])
                  THEN call_service("light", "turn_off", argv[2], ok)
                  ELSE call_service("switch", "turn_off", argv[2], ok)
               /\ Said(ok, "Turned off")
               /\ exit' = "0"
    /\ UNCHANGED <<monitorVars, filterVars, docVars, argv>>

\* main: command == "toggle"
main_toggle ==
    /\ exit = "running" /\ argv # <<>> /\ LowerCommand(argv[1]) = "toggle"
    /\ IF Len(argv) < 2 THEN Fails
       ELSE \E ok \in BOOLEAN :
               /\ call_service("light", "toggle", argv[2], ok)
               /\ Said(ok, "Toggled")
               /\ exit' = "0"
    /\ UNCHANGED <<monitorVars, filterVars, docVars, argv>>

\* main: command == "temp"
main_temp ==
    /\ exit = "running" /\ argv # <<>> /\ LowerCommand(argv[1]) = "temp"
    /\ IF Len(argv) < 3 \/ FloatRaises(argv[3]) THEN Fails
       ELSE \E ok \in BOOLEAN :
               /\ call_service("climate", "set_temperature", argv[2], ok)
               /\ Said(ok, "Set")
               /\ exit' = "0"
    /\ UNCHANGED <<monitorVars, filterVars, docVars, argv>>

\* main: command == "lock"
main_lock ==
    /\ exit = "running" /\ argv # <<>> /\ LowerCommand(argv[1]) = "lock"
    /\ IF Len(argv) < 2 THEN Fails
       ELSE \E ok \in BOOLEAN :
               /\ call_service("lock", "lock", argv[2], ok)
               /\ Said(ok, "Locked")
               /\ exit' = "0"
    /\ UNCHANGED <<monitorVars, filterVars, docVars, argv>>

\* main: command == "unlock"
main_unlock ==
    /\ exit = "running" /\ argv # <<>> /\ LowerCommand(argv[1]) = "unlock"
    /\ IF Len(argv) < 2 THEN Fails
       ELSE \E ok \in BOOLEAN :
               /\ call_service("lock", "unlock", argv[2], ok)
               /\ Said(ok, "Unlocked")
               /\ exit' = "0"
    /\ UNCHANGED <<monitorVars, filterVars, docVars, argv>>

\* main: command == "lights": list_entities("light"); when _api_call
\* returned None the for loop raises TypeError
main_lights ==
    /\ exit = "running" /\ argv # <<>> /\ LowerCommand(argv[1]) = "lights"
    /\ \E ok \in BOOLEAN :
          /\ printed' = printed \o (IF ok THEN <<"Available Lights">>
                                    ELSE <<"Error", "Available Lights", "Error">>)
          /\ exit' = IF ok THEN "0" ELSE "1"
    /\ UNCHANGED <<monitorVars, filterVars, docVars, argv, calls>>

\* main: command == "dashboard": show_dashboard prints what it could list
main_dashboard ==
    /\ exit = "running" /\ argv # <<>> /\ LowerCommand(argv[1]) = "dashboard"
    /\ \E ok \in BOOLEAN :
          printed' = printed \o (IF ok THEN <<"Dashboard">>
                                 ELSE <<"Dashboard", "Error", "Error", "Error">>)
    /\ exit' = "0"
    /\ UNCHANGED <<monitorVars, filterVars, docVars, argv, calls>>

\* main: else
main_unknown ==
    /\ exit = "running" /\ argv # <<>>
    /\ LowerCommand(argv[1]) \notin {"dashboard", "lights", "on", "off", "toggle",
                                       "temp", "lock", "unlock"}
    /\ printed' = Append(printed, "Unknown command")
    /\ exit' = "0"
    /\ UNCHANGED <<monitorVars, filterVars, docVars, argv, calls>>

NextHa ==
    \/ main_usage
    \/ main_on
    \/ main_off
    \/ main_toggle
    \/ main_temp
    \/ main_lock
    \/ main_unlock
    \/ main_lights
    \/ main_dashboard
    \/ main_unknown

SpecHa == InitHa /\ [][NextHa]_vars


(***************************************************************************)
(* What the claims speak of.                                               *)
(***************************************************************************)
\* the identifier an item of the delta was stored under
IdOf(item) ==
    IF mon = "band" THEN item.show_id
    ELSE IF mon = "hurricanes" THEN item.game_id
    ELSE item.id

Running == pc \in {"fetch", "loop", "save", "dump", "main"}

\* the run has returned to main (what it found and saved is still in sight)
Returned == pc = "main"

\* the value the run loaded is a mapping
IsMapping(value) == IsDict(value)
LoadedMapping == IsMapping(load_known(startDisk))

\* the members of DATA_FILE a run of the monitor has written
Written(file) ==
    IF file.kind = "object"
    THEN {file.items[i] : i \in {j \in 1..Len(file.items) :
                                    file.items[j] # <<OldKey(mon), OldRecord(mon)>>}}
    ELSE {}

\* C1: idempotence across runs.  When a run has completed and the next run,
\* at the same moment and over the same sources, loads what is persisted as
\* a mapping, the next run's delta is empty.
C1_IdempotentAcrossRuns ==
    (Returned /\ prev.how = "done" /\ prev.clock = clock /\ LoadedMapping)
        => new_items = <<>>

\* C2: at-least-once notification.  Whenever no run is under way, every
\* identifier the monitor has written to DATA_FILE is that of an item some
\* run has handed to the Notifier.
C2_SeenOnlyIfHanded ==
    pc = "idle" =>
        \A member \in Written(disk) :
            \E id \in handed : JsonKey(id) = member[1]


\* the items of a sequence
Range(items) == {items[i] : i \in 1..Len(items)}

\* C3: a run that is killed, or left by an exception, before its save leaves
\* DATA_FILE as it was when the run began, and the next run that returns,
\* at the same moment and over the same sources, has in its delta every
\* item the aborted run had found.
C3_AbortLosesNothing ==
    /\ (pc \in {"fetch", "loop", "save"}) => disk = startDisk
    /\ (pc = "idle" /\ prev.how = "aborted") => disk = prev.before
    /\ (Returned /\ prev.how = "aborted" /\ prev.clock = clock)
            => Range(prev.new) \subseteq Range(new_items)

\* an aborted run had found something, and the next run has returned
C3_Witness ==
    /\ Returned
    /\ prev.how = "aborted"
    /\ prev.new # <<>>
    /\ Range(prev.new) \subseteq Range(new_items)

\* C4: the save is atomic.  A save that is cut short (the process killed,
\* or the write failing) leaves in DATA_FILE the whole document of before
\* the save or the whole new one.
C4_SaveAtomic ==
    [][(pc = "dump" /\ pc' = "idle")
          => (disk' = startDisk \/ disk' = Dump(known))]_vars

NextTurn ==
    CASE mon = "band" -> check_band(src, Head(todo), known, new_items)
      [] mon = "hurricanes" -> check_games(Head(todo), known, new_items)
      [] mon = "shop" -> extract_events(src, Head(todo), clock, known, new_items)
      [] OTHER -> check_manual_events(Head(todo), clock, known, new_items)

\* C6: a malformed candidate never aborts the batch.  With a mapping
\* loaded, no candidate makes the loop raise: the candidate is skipped and
\* the loop goes on to the next one and to the save.
C6_MalformedNeverAborts ==
    (pc = "loop" /\ todo # <<>> /\ IsMapping(known)) => ~NextTurn.raised

\* C7: idempotence within a run.  With a mapping loaded, the delta holds at
\* most one item for an identifier, and the store exactly one entry for the
\* identifier of every item of the delta.
C7_OncePerIdentifier ==
    (Running /\ IsMapping(known)) =>
        /\ \A i, j \in 1..Len(new_items) :
              IdOf(new_items[i]) = IdOf(new_items[j]) => i = j
        /\ \A i \in 1..Len(new_items) :
              Cardinality({k \in 1..Len(known.items) :
                              known.items[k][1] = IdOf(new_items[i])}) = 1

\* both bands list the same show, under one id: the run has returned with
\* one item
C7_Witness ==
    /\ Returned /\ mon = "band" /\ startDisk = NoFile
    /\ Len(world) = 2
    /\ world[1].src = 1 /\ world[2].src = 2
    /\ world[1].item = world[2].item
    /\ world[1].item.id = StrId(1) /\ world[1].item.venue = 1
    /\ Len(new_items) = 1
    /\ Len(known.items) = 1

\* the identifiers of the relevant candidates of a run
ExpectedIds ==
    CASE mon = "band" ->
            {IF Truthy(world[i].item.id) THEN world[i].item.id
             ELSE FallbackId(world[i].src, world[i].item.datetime,
                             Venues[world[i].item.venue].name) :
                i \in {j \in 1..Len(world) :
                         /\ world[j].item.venue # NullVenue
                         /\ Venues[world[j].item.venue].region = <<"N", "C">>}}
      [] mon = "hurricanes" ->
            {str(world[i].item.gamePk) : i \in 1..Len(world)}
      [] mon = "shop" ->
            UNION {{<<"e", s, m>> : m \in Range(AllMatches(ItemsOf(world, s)))} :
                      s \in 1..Len(COMIC_SHOPS)}
      [] OTHER ->
            {<<"c", major_cons[i].name, clock.year>> :
                i \in {j \in 1..Len(major_cons) :
                         major_cons[j].typical_month \in {MonthNames[clock.month], "Various"}}}

\* C8: completeness of a first run.  A run that began with an empty store
\* and has returned has in its delta one item for every identifier of the
\* relevant candidates, and DATA_FILE then has exactly those identifiers as
\* keys (each as JSON writes it), one key for each.
C8_FirstRunComplete ==
    (Returned /\ load_known(startDisk) = EmptyDict) =>
        /\ {IdOf(item) : item \in Range(new_items)} = ExpectedIds
        /\ Len(new_items) = Cardinality(ExpectedIds)
        /\ Keys(load_known(disk)) = {JsonKey(id) : id \in ExpectedIds}
        /\ Cardinality(Keys(load_known(disk))) = Cardinality(ExpectedIds)


\* the records a run has put into the store, in memory and in DATA_FILE
Kept ==
    Range(new_items)
    \cup {known.items[i][2] : i \in 1..Len(known.items)}
    \cup {disk.items[i][2] : i \in 1..Len(disk.items)}

\* the convention of a record passed the month filter at a moment up to now
\* of the year its identifier names
WasDue(rec) ==
    \E i \in 1..Len(Clocks), c \in 1..Len(major_cons) :
        /\ ~Later(clock, Clocks[i])
        /\ Clocks[i].year = rec.id[3]
        /\ major_cons[c].name = rec.name
        /\ major_cons[c].typical_month \in {MonthNames[Clocks[i].month], "Various"}

IsDue(rec) ==
    /\ clock.year = rec.id[3]
    /\ \E c \in 1..Len(major_cons) :
          /\ major_cons[c].name = rec.name
          /\ major_cons[c].typical_month \in {MonthNames[clock.month], "Various"}

\* C9: a candidate that fails the criteria filter is never appended to the
\* delta and never written to the store, whatever its identifier: every
\* record the band monitor keeps is one of a North Carolina show, every
\* record the events monitor keeps is one of a convention whose month had
\* come, and what is in its delta is due now.
C9_FilteredNeverKept ==
    /\ mon = "band" =>
          \A rec \in Kept \ {OldRecord(mon)} :
              \E v \in 1..Len(Venues) :
                  /\ rec.venue = Venues[v].name
                  /\ rec.city = Venues[v].city
                  /\ rec.region = Venues[v].region
                  /\ InNC[v]
    /\ mon = "events" =>
          /\ \A rec \in Kept \ {OldRecord(mon)} : WasDue(rec)
          /\ \A rec \in Range(new_items) : IsDue(rec)

\* a show outside North Carolina has been read, under the id of a show that
\* is kept
C9_Witness ==
    /\ Returned /\ mon = "band"
    /\ Len(world) = 2
    /\ world[1].item.venue = 2 /\ world[1].item.id = StrId(1)
    /\ world[2].item.venue = 1 /\ world[2].item.id = StrId(1)
    /\ Len(new_items) = 1
    /\ new_items[1].region = <<"N", "C">>

\* C10: first seen wins.  With a mapping loaded, no item of the delta has an
\* identifier the loaded store had as a key, every record the loaded store
\* held is still held unchanged, and the record held for an item of the
\* delta is the one first seen.
C10_FirstSeenWins ==
    (Running /\ IsMapping(known)) =>
        LET loaded == load_known(startDisk)
        IN  /\ \A key \in Keys(loaded) :
                  /\ key \in Keys(known)
                  /\ Get(known, key) = Get(loaded, key)
                  /\ \A item \in Range(new_items) : IdOf(item) # key
            /\ \A item \in Range(new_items) : Get(known, IdOf(item)) = item

\* a game the store knows has come again with another date: the run has
\* returned with nothing new and the stored record as it was
C10_Witness ==
    /\ Returned /\ mon = "hurricanes"
    /\ startDisk.kind = "object"
    /\ Len(world) = 1
    /\ str(world[1].item.gamePk) = OldKey(mon)
    /\ world[1].item.date # OldRecord(mon).date
    /\ new_items = <<>>
    /\ Get(known, OldKey(mon)) = OldRecord(mon)

\* C11: the store only grows.  When a run that loaded a mapping has
\* returned, every key the persisted document had before the run is a key of
\* the persisted document after it, with the same record.
C11_StoreOnlyGrows ==
    (Returned /\ LoadedMapping) =>
        LET before == load_known(startDisk)
            after == load_known(disk)
        IN  \A key \in Keys(before) :
                /\ key \in Keys(after)
                /\ Get(after, key) = Get(before, key)

\* DATA_FILE is missing or cannot be deserialized
Unreadable(file) == file.kind \in {"missing", "empty", "garbage"}

\* C12: load never raises.  A run that found DATA_FILE missing, empty or
\* not deserializable goes on with an empty mapping: all along the run the
\* store is a mapping that holds the items this run found and nothing else.
C12_LoadNeverRaises ==
    (Running /\ Unreadable(startDisk)) =>
        /\ IsMapping(known)
        /\ load_known(startDisk) = EmptyDict
        /\ Keys(known) = {IdOf(item) : item \in Range(new_items)}

\* a run that found a file json.load rejects has returned with new items
C12_Witness ==
    /\ Returned
    /\ startDisk.kind = "garbage"
    /\ new_items # <<>>

\* DATA_FILE is there and json.load rejects it
Corrupt(file) == file.kind \in {"empty", "garbage"}

\* the delta of a run without history: one item for every identifier of the
\* relevant candidates
DeltaIsAll ==
    /\ {IdOf(item) : item \in Range(new_items)} = ExpectedIds
    /\ Len(new_items) = Cardinality(ExpectedIds)

\* DATA_FILE is a readable mapping of the items seen in this run
DiskIsSeen ==
    /\ disk.kind = "object"
    /\ Keys(load_known(disk)) = {JsonKey(id) : id \in ExpectedIds}

Readable(file) == file.kind \in {"object", "array", "scalar"}

\* C14: round trip.  Loading a readable DATA_FILE and saving what was
\* loaded leaves its content (the keys and the record of each, as json.load
\* gives them) as it was; so does a run that saves the store as it loaded
\* it.
C14_RoundTrip ==
    /\ Readable(disk) => Parse(Dump(load_known(disk))) = Parse(disk)
    /\ (Returned /\ saves = 1 /\ Readable(startDisk) /\ known = load_known(startDisk))
          => Parse(disk) = Parse(startDisk)

\* a run of the events monitor has loaded a store of several records,
\* found nothing to add, saved and returned
C14_Witness ==
    /\ Returned /\ mon = "events"
    /\ saves = 1
    /\ startDisk.kind = "object"
    /\ Len(startDisk.items) >= 2
    /\ known = load_known(startDisk)

\* C15: a fetch failure is zero candidates.  A source whose request fails,
\* or whose answer is not of the expected shape, does not end the run and
\* gives the loop nothing to do; a run with such a source that has returned
\* has been through all its sources, has in its delta the relevant
\* candidates of the other sources that were not known, and has saved the
\* store with them.
C15_FetchFailureIsEmpty ==
    /\ (pc = "fetch" /\ src \in down) => ~MalformedRaises(mon)
    /\ (pc = "loop" /\ src \in down) => todo = <<>>
    /\ (Returned /\ down # {}) =>
          /\ src = NSources(mon)
          /\ LoadedMapping =>
                {IdOf(item) : item \in Range(new_items)}
                    = {id \in ExpectedIds : id \notin Keys(load_known(startDisk))}
          /\ new_items # <<>> => (saves = 1 /\ disk = Dump(known))

\* C16: a Notifier failure does not roll back the store.  After a run that
\* had loaded a mapping and whose message the Notifier could not send,
\* DATA_FILE has a key for every item of that run's delta, and the next
\* run that returns, at the same moment and over the same sources, has none
\* of these items in its delta.
C16_UnsentStaysStored ==
    /\ (pc = "idle" /\ prev.how = "unsent" /\ IsMapping(load_known(prev.before))) =>
          \A item \in Range(prev.new) :
              JsonKey(IdOf(item)) \in Keys(load_known(disk))
    /\ (Returned /\ prev.how = "unsent" /\ prev.clock = clock
           /\ IsMapping(load_known(prev.before))) =>
          \A item \in Range(prev.new), again \in Range(new_items) :
              IdOf(item) # IdOf(again)

\* C17: a storage write error is fatal and is the only fatal error.  In
\* every step: a write that fails ends the run without run returning
\* (nothing of the run goes on); a document that cannot be read gives a
\* mapping; with a mapping loaded no candidate makes the loop raise; a
\* message that cannot be sent ends the run as a sent one does.
C17_OnlyWriteErrorFatal ==
    [][ /\ (pc = "dump" /\ disk'.kind = "garbage")
              => (pc' = "idle" /\ prev'.how = "broken")
        /\ (Running /\ Unreadable(startDisk)) => IsMapping(known)
        /\ (pc = "loop" /\ todo # <<>> /\ IsMapping(known)) => ~NextTurn.raised
        /\ (pc = "main" /\ pc' = "idle" /\ handed' # handed)
              => prev'.how \in {"done", "unsent"}
      ]_vars

\* the candidates of the shops from shop s on, in the order run and
\* extract_events visit them: shop after shop, of a shop pattern after
\* pattern, of a pattern the matches as findall gives them
RECURSIVE ShopCandidates(_)
ShopCandidates(s) ==
    IF s > Len(COMIC_SHOPS) THEN <<>>
    ELSE LET matches == AllMatches(ItemsOf(world, s))
         IN  [i \in 1..Len(matches) |->
                 [id |-> <<"e", s, matches[i]>>, relevant |-> TRUE]]
             \o ShopCandidates(s + 1)

\* the candidates of a run in the order the run visits them, each with its
\* identifier and whether it passes the filter
Encountered ==
    CASE mon = "band" ->
            [j \in 1..Len(world) |->
                IF world[j].item.venue = NullVenue
                THEN [id |-> NoId, relevant |-> FALSE]
                ELSE LET v == Venues[world[j].item.venue]
                     IN  [id |-> IF Truthy(world[j].item.id) THEN world[j].item.id
                                 ELSE FallbackId(world[j].src, world[j].item.datetime, v.name),
                          relevant |-> InNC[world[j].item.venue]]]
      [] mon = "hurricanes" ->
            [j \in 1..Len(world) |->
                [id |-> str(world[j].item.gamePk), relevant |-> TRUE]]
      [] mon = "shop" -> ShopCandidates(1)
      [] OTHER ->
            [j \in 1..Len(major_cons) |->
                [id |-> <<"c", major_cons[j].name, clock.year>>,
                 relevant |-> major_cons[j].typical_month
                                  \in {MonthNames[clock.month], "Various"}]]

\* the places of a sequence of candidates where a relevant candidate of
\* this identifier is visited
Places(cands, id) ==
    {j \in 1..Len(cands) : cands[j].id = id /\ cands[j].relevant}

FirstPlace(cands, id) ==
    CHOOSE j \in Places(cands, id) : \A k \in Places(cands, id) : j <= k

\* C18: the delta keeps the order of the candidates.  With a mapping
\* loaded, every item of the delta is that of a relevant candidate, and of
\* two items of the delta the one whose candidate the run visited first
\* (source after source, the candidates of a source in the order the fetch
\* and, for a shop, the extraction give them) comes first.
C18_DeltaInSourceOrder ==
    (Running /\ IsMapping(known) /\ new_items # <<>>) =>
        LET cands == Encountered
            place == [i \in 1..Len(new_items) |->
                         IF Places(cands, IdOf(new_items[i])) = {} THEN 0
                         ELSE FirstPlace(cands, IdOf(new_items[i]))]
        IN  /\ \A i \in 1..Len(new_items) : place[i] > 0
            /\ \A i \in 1..(Len(new_items) - 1) : place[i] < place[i + 1]

\* the second shop's page has given an event and then the first shop's
\* page another one: the run has returned with the first shop's event first
C18_Witness ==
    /\ Returned /\ mon = "shop"
    /\ Len(new_items) = 2
    /\ new_items[1].shop = COMIC_SHOPS[1].name
    /\ new_items[2].shop = COMIC_SHOPS[2].name
    /\ new_items[1].title # new_items[2].title

\* two records of the band monitor are of the same show listed without an
\* id of the source: the same band, date, city and region, and venue names
\* that differ at most in the case of their letters
SameShow(a, b) ==
    /\ a.show_id[1] = "f" /\ b.show_id[1] = "f"
    /\ a.band = b.band
    /\ a.date = b.date
    /\ a.city = b.city
    /\ a.region = b.region
    /\ lower(a.venue) = lower(b.venue)

\* C19: the Identity Resolver is stable.  With a mapping loaded, the band
\* monitor has no two items in its delta, and no two records in its store,
\* for the same show: candidates that differ only in the case of the venue
\* name resolve to one identifier.
C19_ResolverStable ==
    (Running /\ mon = "band" /\ IsMapping(known)) =>
        /\ \A i, k \in 1..Len(new_items) :
              SameShow(new_items[i], new_items[k]) => i = k
        /\ \A i, k \in 1..Len(known.items) :
              SameShow(known.items[i][2], known.items[k][2]) => i = k

\* the identifiers extract_events gives the events of one line of a shop's
\* page
LineIds(s, line) ==
    {<<"e", s, MatchOf(date_patterns[p], line)>> :
        p \in {q \in 1..Len(date_patterns) : LineMatches(date_patterns[q], line)}}

\* C20: the Identity Resolver never collides.  When a run of the shop
\* monitor without history has returned, any two different dated lines of
\* one shop's page have each an item of their own in the delta; two shows
\* without id of the source that differ in band, date or venue get
\* different identifiers; so do two different conventions.
C20_ResolverNeverCollides ==
    /\ (Returned /\ mon = "shop" /\ load_known(startDisk) = EmptyDict) =>
          \A s \in 1..Len(COMIC_SHOPS) :
              \A a, b \in Range(ItemsOf(world, s)) :
                  (a # b /\ LineIds(s, a) # {} /\ LineIds(s, b) # {}) =>
                      \E x, y \in Range(new_items) :
                          /\ IdOf(x) # IdOf(y)
                          /\ IdOf(x) \in LineIds(s, a)
                          /\ IdOf(y) \in LineIds(s, b)
    /\ (Returned /\ mon = "band") =>
          \A i, j \in 1..Len(world) :
              LET a == world[i]
                  b == world[j]
              IN  (/\ ~Truthy(a.item.id) /\ ~Truthy(b.item.id)
                   /\ a.item.venue # NullVenue /\ b.item.venue # NullVenue
                   /\ \/ a.src # b.src
                      \/ a.item.datetime # b.item.datetime
                      \/ lower(Venues[a.item.venue].name) # lower(Venues[b.item.venue].name))
                  => Encountered[i].id # Encountered[j].id
    /\ (Returned /\ mon = "events") =>
          \A i, j \in 1..Len(major_cons) :
              i # j => Encountered[i].id # Encountered[j].id

\* the store of a process holds what the process loaded and what it found
\* itself, nothing another process has saved meanwhile
OwnStore(p) ==
    IsDict(p.known) =>
        \A id \in Keys(p.known) :
            \/ (IsDict(load_known(p.startDisk)) /\ id \in Keys(load_known(p.startDisk)))
            \/ \E i \in 1..Len(p.new_items) : p.new_items[i].show_id = id

\* the process that is scheduled
Me == [pc |-> pc, known |-> known, new_items |-> new_items, src |-> src, todo |-> todo,
       message |-> message, startDisk |-> startDisk, saves |-> saves]

\* C21: nothing guards load-modify-save.  A process of the band monitor can
\* start (load DATA_FILE) wherever another process of it stands, also
\* between that one's load and save, and the store either process holds,
\* and will save whole, is only what it loaded and what it found itself.
C21_NoMutualExclusion ==
    /\ pc = "idle" => ENABLED Monitor_init
    /\ OwnStore(Me)
    /\ OwnStore(other)

\* both processes have saved and returned: an identifier the first one saved
\* is not in DATA_FILE any more, and one show is in the delta of both
C21_Witness ==
    /\ pc = "main" /\ other.pc = "main"
    /\ saves = 1 /\ other.saves = 1
    /\ disk = Dump(known)
    /\ \E i \in 1..Len(other.new_items) :
          /\ other.new_items[i].show_id \in Keys(other.known)
          /\ JsonKey(other.new_items[i].show_id) \notin Keys(load_known(disk))
    /\ \E i \in 1..Len(other.new_items), j \in 1..Len(new_items) :
          other.new_items[i] = new_items[j]

\* a letter
IsLetter(c) == \E i \in 1..Len(LowerChars) : LowerChars[i] = c \/ UpperChars[i] = c

\* the text names North Carolina: the state's name, or NC as a word of its own
NamesNC(text) ==
    LET t == lower(text)
    IN  \/ StrIn(nc_indicators[3], t)
        \/ \E i \in 1..(Len(t) - 1) :
              /\ t[i] = "n" /\ t[i + 1] = "c"
              /\ (i = 1 \/ ~IsLetter(t[i - 1]))
              /\ (i + 1 = Len(t) \/ ~IsLetter(t[i + 2]))

\* C22: is_in_north_carolina answers True for PNC Arena, Raleigh, NC and
\* False for PNC Arena, Raleigh, SC, and False for every location of which
\* neither venue, city nor region names North Carolina.
C22_OnlyNorthCarolina ==
    in_nc # "none" =>
        /\ (location = [venue |-> PNC_Arena, city |-> Raleigh, region |-> <<"N","C">>])
                => in_nc = "True"
        /\ (location = [venue |-> PNC_Arena, city |-> Raleigh, region |-> <<"S","C">>])
                => in_nc = "False"
        /\ (~NamesNC(location.venue) /\ ~NamesNC(location.city) /\ ~NamesNC(location.region))
                => in_nc = "False"

\* C23: a run returns a message exactly when its delta is not empty, and
\* main calls the Notifier only with a returned message and as its last
\* step: a run that returned and ended unkilled has handed its delta to the
\* Notifier if it had one, and has not called the Notifier if it had none.
C23_NotifiedIffNew ==
    [][/\ Returned' => (message' <=> (new_items' # <<>>))
       /\ (handed' # handed \/ (pc # "idle" /\ pc' = "idle" /\ prev'.how = "unsent"))
             => (Returned /\ message)
       /\ (Returned /\ pc' = "idle" /\ prev'.how # "broken") =>
             IF new_items # <<>>
             THEN IdsOf(new_items) \subseteq handed' /\ prev'.how \in {"done", "unsent"}
             ELSE handed' = handed /\ prev'.how = "done"]_vars

\* a run has saved, handed its delta to the Notifier and is over
C23_Witness ==
    /\ pc = "idle"
    /\ prev.how = "done"
    /\ handed # {}
    /\ disk.kind = "object"

\* C24: delta and store stay in step.  At every point of a run, whatever
\* document was loaded, every item of the delta is in the in-memory store
\* under its identifier, and its identifier was not a key of the store as
\* the run loaded it.
C24_DeltaStoreInStep ==
    Running =>
        \A i \in 1..Len(new_items) :
            LET id == IdOf(new_items[i])
                loaded == load_known(startDisk)
            IN  /\ IsDict(known)
                /\ In(id, known)
                /\ Get(known, id) = new_items[i]
                /\ ~(IsDict(loaded) /\ In(id, loaded))

\* C25: load returns a mapping whatever DATA_FILE holds, valid JSON that is
\* no object included, so that neither the membership test nor the insert
\* of a run fails on the loaded value.
C25_LoadIsMapping ==
    Running =>
        /\ IsMapping(load_known(startDisk))
        /\ ~InRaises(known)
        /\ ~SetRaises(known)

\* C26: the store survives the round trip through DATA_FILE with its keys.
\* Saving the in-memory store and loading it back gives a mapping with the
\* same key set, in which the membership test finds every identifier the
\* run used as a key, an identifier the source gave as a number included.
C26_KeysSurviveRoundTrip ==
    (Running /\ IsDict(known)) =>
        LET back == load_known(Dump(known))
        IN  /\ IsDict(back)
            /\ Keys(back) = Keys(known)
            /\ \A id \in Keys(known) : In(id, back)

\* C27: in the events monitor a convention is in the delta only of a run
\* whose month is its typical month (or whose typical month is 'Various'),
\* under the identifier of the run's year; no run of another month stores
\* it; and once DATA_FILE holds that identifier and loads as a mapping, no
\* run has the convention in its delta again that year, nor twice in one
\* delta.
C27_OncePerYearInMonth ==
    mon = "events" =>
        /\ \A i \in 1..Len(new_items) :
              /\ IsDue(new_items[i])
              /\ new_items[i].id[3] = clock.year
              /\ LoadedMapping => ~In(new_items[i].id, load_known(startDisk))
              /\ \A j \in 1..Len(new_items) : new_items[j].id = new_items[i].id => j = i
        /\ \A rec \in (Kept \ Range(new_items)) \ {OldRecord(mon)} : WasDue(rec)

\* a run of June 2026 has Heroes Convention in its delta, DATA_FILE holding
\* the convention under the identifier of 2025
C27_Witness ==
    /\ Returned /\ mon = "events"
    /\ clock = [year |-> 2026, month |-> 6]
    /\ IsDict(load_known(startDisk))
    /\ In(<<"c", "Heroes Convention", 2025>>, load_known(startDisk))
    /\ \E i \in 1..Len(new_items) : new_items[i].id = <<"c", "Heroes Convention", 2026>>

\* a ends b
IsSuffix(a, b) ==
    Len(a) <= Len(b) /\ SubSeq(b, Len(b) - Len(a) + 1, Len(b)) = a

\* the index of the first '## ' heading after the Table of Contents heading
\* (0: none)
NextSection(content) ==
    LET t == Len(Part0(content, TocHeading)) + 1
        hits == {i \in (t + 1)..Len(content) : content[i] \in {QuickStart, Usage}}
    IN  IF hits = {} THEN 0 ELSE CHOOSE i \in hits : \A j \in hits : i <= j

\* what update_auto_generated_section made of README.md in its n-th call
Updated(n) == IF n = Len(earlier) THEN readme_content ELSE earlier[n + 1]

\* C28: update_auto_generated_section changes the Table of Contents only.
\* For every README.md with the heading, the text before the heading is as
\* before, the first section after the Table of Contents is still there and
\* all that followed its heading still ends the file, with or without a
\* '## Quick Start' heading; and an update of an updated file changes
\* nothing.
C28_OnlyTocChanges ==
    \A n \in 1..Len(earlier) :
        earlier[n] # NoReadme =>
            /\ Has(earlier[n], TocHeading) =>
                  /\ Part0(Updated(n), TocHeading) = Part0(earlier[n], TocHeading)
                  /\ NextSection(earlier[n]) # 0 =>
                        /\ Has(Rest(Updated(n), TocHeading), earlier[n][NextSection(earlier[n])])
                        /\ IsSuffix(SubSeq(earlier[n], NextSection(earlier[n]) + 1,
                                           Len(earlier[n])),
                                    Updated(n))
            /\ (n > 1 /\ earlier[n - 1] # NoReadme) => Updated(n) = earlier[n]

\* C29: on, off and toggle act on lights and switches alike.  Every service
\* call they make goes to the light domain for an entity id that starts with
\* 'light.', and to the switch domain for every other entity id.
C29_LightsAndSwitchesAlike ==
    \A i \in 1..Len(calls) :
        calls[i].service \in {"turn_on", "turn_off", "toggle"} =>
            calls[i].domain = IF startswith_light(calls[i].entity_id)
                              THEN "light" ELSE "switch"

\* the confirmations of main
Confirmations == {"Turned on", "Turned off", "Toggled", "Set", "Locked", "Unlocked"}

\* C30: a confirmation is printed only when the API call succeeded.  When
\* _api_call failed and returned None, none of Turned on, Turned off,
\* Toggled, Set, Locked, Unlocked is printed.
C30_ConfirmedOnlyOnSuccess ==
    (\E i \in 1..Len(printed) : printed[i] \in Confirmations) =>
        /\ calls # <<>>
        /\ \A i \in 1..Len(calls) : calls[i].returned # "None"
====
